---- MODULE Spec2Model ----
(***************************************************************************)
(* Model of the scraps repository: the MFJ tax estimator                   *)
(* (src/tax_estimator.ts) and the HN "what are you working on" poller      *)
(* (src/unnamed/part_000).                                                 *)
(*                                                                         *)
(* Numbers.  A JavaScript number n is represented by the integer n * FP    *)
(* (fixed point, three decimals).  With inputs given to a whole currency   *)
(* unit (a multiple of 0.001 K) every intermediate value of the estimator  *)
(* is a multiple of 1/FP, so the arithmetic below is the exact real        *)
(* arithmetic the doubles of the program approximate.                      *)
(* Number.POSITIVE_INFINITY and NaN are two values outside the range of    *)
(* the finite numbers; no arithmetic is ever done on them.                 *)
(***************************************************************************)
EXTENDS Integers, Sequences, FiniteSets, TLC

VARIABLES
    args,       \* estimator: the five arguments of the last call, in K
    frame,      \* estimator: the locals of the last call at its return
    r202x,      \* estimator: the record the last call returned
    taxable,    \* bracket walk: the argument of the last taxFromBrackets call
    tax,        \* bracket walk: what it returned
    magi,       \* credit: the argument of the last childTaxCreditNonrefundable call
    credit,     \* credit: what it returned
    clock,      \* poller: Date.now(), in days
    hnFile,     \* poller: the state file, <<>> when missing, else <<state>>
    pc,         \* poller: where main() stands
    state,      \* poller: main's local `state`
    checkedAt,  \* poller: the Date.now() main read at its cooldown test
    requested,  \* poller: this run called request()
    wrote,      \* poller: this run called saveState()
    exitCode    \* poller: process.exitCode of this run

estVars == <<args, frame, r202x>>
brkVars == <<taxable, tax>>
ctcVars == <<magi, credit>>
hnVars == <<clock, hnFile, pc, state, checkedAt, requested, wrote, exitCode>>
vars == <<args, frame, r202x, taxable, tax, magi, credit,
          clock, hnFile, pc, state, checkedAt, requested, wrote, exitCode>>

(***************************************************************************)
(* Fixed-point numbers                                                     *)
(***************************************************************************)
FP == 10 * 10 * 10

\* the number n of the source text
N(n) == n * FP

POSITIVE_INFINITY == 2147483647

NaN == -2147483647

IsFinite(n) == n # POSITIVE_INFINITY /\ n # NaN

Max(a, b) == IF a >= b THEN a ELSE b

Min(a, b) == IF a <= b THEN a ELSE b

\* a * b of two represented numbers, split so that no product leaves 32 bits
Mul(a, b) == (a \div FP) * b + ((a % FP) * b) \div FP

\* Math.ceil(a / b) for a > 0, b > 0, computed on the exact quotient
CeilQuot(a, b) == ((a + b - 1) \div b) * FP

\* Math.floor(a / b), used by a mutant only
FloorQuot(a, b) == (a \div b) * FP

\* Math.round(n): the nearest integer, halves rounded up
Round(n) == ((n + FP \div 2) \div FP) * FP

(***************************************************************************)
(* src/tax_estimator.ts: the policy constants                              *)
(***************************************************************************)
STD_DED == N(31500)

ORD_BRACKETS ==
    << [upTo |-> N(23850),  rate |-> (10 * FP) \div 100],
       [upTo |-> N(96950),  rate |-> (12 * FP) \div 100],
       [upTo |-> N(206700), rate |-> (22 * FP) \div 100],
       [upTo |-> N(394600), rate |-> (24 * FP) \div 100],
       [upTo |-> N(501050), rate |-> (32 * FP) \div 100],
       [upTo |-> N(751600), rate |-> (35 * FP) \div 100],
       [upTo |-> POSITIVE_INFINITY, rate |-> (37 * FP) \div 100] >>

CG_ZERO == N(96700)

CG_FIFTEEN == N(600050)

SALT_BASE_CAP == N(40000)

SALT_FLOOR_CAP == N(10000)

SALT_PHASEOUT_START_MAGI == N(500000)

SALT_PHASEOUT_RATE == (3 * FP) \div 10

CTC_PER_CHILD == N(2200)

CTC_PHASEOUT_START == N(400000)

CTC_PHASEOUT_STEP == N(1000)

CTC_PHASEOUT_PER_STEP == N(50)

NIIT_THRESHOLD == N(250000)

NIIT_RATE == (38 * FP) \div 1000

CHARITABLE_CASH_AGI_CAP == (6 * FP) \div 10

CG_FIFTEEN_RATE == (15 * FP) \div 100

CG_TWENTY_RATE == (2 * FP) \div 10

(***************************************************************************)
(* src/tax_estimator.ts: the helpers                                       *)
(***************************************************************************)
\* mutant: the Math.max is forgotten
clamp0_nomax(n) == IF IsFinite(n) THEN n ELSE 0

clamp0(n) == IF IsFinite(n) THEN Max(0, n) ELSE 0

dollarsFromK(k) == Mul(clamp0(k), N(1000))

RECURSIVE bracketLoop(_, _, _, _, _)
\* the for loop of taxFromBrackets, entered at bracket i with the running
\* base and tax
bracketLoop(t, brackets, i, base, acc) ==
    LET b == brackets[i]
        slice == Max(0, Min(t, b.upTo) - base)
        acc2 == acc + Mul(slice, b.rate)
    IN  IF t <= b.upTo \/ i = Len(brackets)
        THEN acc2
        ELSE bracketLoop(t, brackets, i + 1, b.upTo, acc2)

RECURSIVE bracketLoop_nobase(_, _, _, _, _)
\* mutant: `base = b.upTo` is forgotten
bracketLoop_nobase(t, brackets, i, base, acc) ==
    LET b == brackets[i]
        slice == Max(0, Min(t, b.upTo) - base)
        acc2 == acc + Mul(slice, b.rate)
    IN  IF t <= b.upTo \/ i = Len(brackets)
        THEN acc2
        ELSE bracketLoop_nobase(t, brackets, i + 1, base, acc2)

taxFromBrackets_nobase(t, brackets) ==
    IF ~IsFinite(t) \/ t <= 0 THEN 0
    ELSE bracketLoop_nobase(t, brackets, 1, 0, 0)

taxFromBrackets(t, brackets) ==
    IF ~IsFinite(t) \/ t <= 0 THEN 0
    ELSE bracketLoop(t, brackets, 1, 0, 0)

saltCapMFJ(m) ==
    LET excess == clamp0(m - SALT_PHASEOUT_START_MAGI)
        reduced == SALT_BASE_CAP - Mul(excess, SALT_PHASEOUT_RATE)
    IN  Max(SALT_FLOOR_CAP, reduced)

\* mutant: Math.floor in place of Math.ceil
childTaxCreditNonrefundable_floor(m) ==
    LET base == 3 * CTC_PER_CHILD
        excess == clamp0(m - CTC_PHASEOUT_START)
        steps == IF excess > 0 THEN FloorQuot(excess, CTC_PHASEOUT_STEP) ELSE 0
        reduction == Mul(steps, CTC_PHASEOUT_PER_STEP)
    IN  Max(0, base - reduction)

childTaxCreditNonrefundable(m) ==
    LET qualifyingChildrenUnder17 == 3
        base == qualifyingChildrenUnder17 * CTC_PER_CHILD
        excess == clamp0(m - CTC_PHASEOUT_START)
        steps == IF excess > 0 THEN CeilQuot(excess, CTC_PHASEOUT_STEP) ELSE 0
        reduction == Mul(steps, CTC_PHASEOUT_PER_STEP)
    IN  Max(0, base - reduction)

(***************************************************************************)
(* src/tax_estimator.ts: estimateTaxMFJ, stage by stage                    *)
(***************************************************************************)
\* lines 123-129: the greater of the standard and the itemized deduction
deductionSelect(agi, m, charitableCash, saltPaid) ==
    LET charitableAllowed == Min(charitableCash, Mul(agi, CHARITABLE_CASH_AGI_CAP))
        saltAllowed == Min(saltPaid, saltCapMFJ(m))
        itemized == charitableAllowed + saltAllowed
    IN  [charitableAllowed |-> charitableAllowed,
         saltAllowed |-> saltAllowed,
         itemized |-> itemized,
         deductionUsed |-> Max(STD_DED, itemized)]

\* mutant: the gross ordinary part, not the taxable one, is taken off the
\* taxable income, so the deduction comes off the gains a second time
taxableSplit_double(ordinaryPart, agi, deductionUsed) ==
    LET taxableOrdinary == clamp0(ordinaryPart - deductionUsed)
        taxableIncome == clamp0(agi - deductionUsed)
    IN  [taxableOrdinary |-> taxableOrdinary,
         taxableIncome |-> taxableIncome,
         taxableLtcg |-> clamp0(taxableIncome - ordinaryPart)]

\* mutant: the taxable ordinary income is not taken off the taxable income
taxableSplit_nosubtract(ordinaryPart, agi, deductionUsed) ==
    LET taxableOrdinary == clamp0(ordinaryPart - deductionUsed)
        taxableIncome == clamp0(agi - deductionUsed)
    IN  [taxableOrdinary |-> taxableOrdinary,
         taxableIncome |-> taxableIncome,
         taxableLtcg |-> taxableIncome]

\* lines 131-134: the deduction reduces ordinary income first, then gains
taxableSplit(ordinaryPart, agi, deductionUsed) ==
    LET taxableOrdinary == clamp0(ordinaryPart - deductionUsed)
        taxableIncome == clamp0(agi - deductionUsed)
    IN  [taxableOrdinary |-> taxableOrdinary,
         taxableIncome |-> taxableIncome,
         taxableLtcg |-> clamp0(taxableIncome - taxableOrdinary)]

\* mutant: the 15% band forgets the gains already placed in the 0% band
ltcgStack_noz(taxableOrdinary, taxableLtcg) ==
    LET z == clamp0(Min(taxableLtcg, CG_ZERO - taxableOrdinary))
        f == clamp0(Min(taxableLtcg - z, CG_FIFTEEN - taxableOrdinary))
        t == clamp0(taxableLtcg - z - f)
    IN  [z |-> z, f |-> f, t |-> t,
         ltcgTax |-> 0 * z + Mul(f, CG_FIFTEEN_RATE) + Mul(t, CG_TWENTY_RATE)]

\* lines 138-144: the gains stack on top of the taxable ordinary income
ltcgStack(taxableOrdinary, taxableLtcg) ==
    LET z == clamp0(Min(taxableLtcg, CG_ZERO - taxableOrdinary))
        f == clamp0(Min(taxableLtcg - z, CG_FIFTEEN - (taxableOrdinary + z)))
        t == clamp0(taxableLtcg - z - f)
    IN  [z |-> z, f |-> f, t |-> t,
         ltcgTax |-> 0 * z + Mul(f, CG_FIFTEEN_RATE) + Mul(t, CG_TWENTY_RATE)]

\* mutant: the MAGI threshold is forgotten
niit_nothreshold(dividends, ltcg, m) ==
    Mul(clamp0(dividends + ltcg), NIIT_RATE)

\* lines 146-150: the simplified net investment income tax
niit(dividends, ltcg, m) ==
    LET nii == clamp0(dividends + ltcg)
        niitBase == Min(nii, clamp0(m - NIIT_THRESHOLD))
    IN  Mul(niitBase, NIIT_RATE)

\* mutant: the whole credit is used, as a refundable credit would be
creditLayer_refundable(taxBeforeCredits, ctc) ==
    [ctcUsed |-> ctc, totalTax |-> taxBeforeCredits - ctc]

\* lines 155-156: the nonrefundable use of the credit
creditLayer(taxBeforeCredits, ctc) ==
    LET ctcUsed == Min(taxBeforeCredits, ctc)
    IN  [ctcUsed |-> ctcUsed, totalTax |-> Max(0, taxBeforeCredits - ctcUsed)]

\* lines 113-156: every local of estimateTaxMFJ at its return statement
estimateLocals(ordinaryIncomeK, ltcgK, dividendsK, charitableCashK, saltPaidK) ==
    LET ordinaryIncome == dollarsFromK(ordinaryIncomeK)
        ltcg == dollarsFromK(ltcgK)
        dividends == dollarsFromK(dividendsK)
        charitableCash == dollarsFromK(charitableCashK)
        saltPaid == dollarsFromK(saltPaidK)
        ordinaryPart == ordinaryIncome + dividends
        agi == ordinaryPart + ltcg
        m == agi
        d == deductionSelect(agi, m, charitableCash, saltPaid)
        s == taxableSplit(ordinaryPart, agi, d.deductionUsed)
        ordinaryTax == taxFromBrackets(s.taxableOrdinary, ORD_BRACKETS)
        g == ltcgStack(s.taxableOrdinary, s.taxableLtcg)
        niitTax == niit(dividends, ltcg, m)
        taxBeforeCredits == ordinaryTax + g.ltcgTax + niitTax
        ctc == childTaxCreditNonrefundable(m)
        c == creditLayer(taxBeforeCredits, ctc)
    IN  [ordinaryIncome |-> ordinaryIncome, ltcg |-> ltcg, dividends |-> dividends,
         charitableCash |-> charitableCash, saltPaid |-> saltPaid,
         ordinaryPart |-> ordinaryPart, agi |-> agi, magi |-> m,
         charitableAllowed |-> d.charitableAllowed, saltAllowed |-> d.saltAllowed,
         itemized |-> d.itemized, deductionUsed |-> d.deductionUsed,
         taxableOrdinary |-> s.taxableOrdinary, taxableIncome |-> s.taxableIncome,
         taxableLtcg |-> s.taxableLtcg,
         ordinaryTax |-> ordinaryTax,
         z |-> g.z, f |-> g.f, t |-> g.t, ltcgTax |-> g.ltcgTax,
         niitTax |-> niitTax, taxBeforeCredits |-> taxBeforeCredits,
         ctc |-> ctc, ctcUsed |-> c.ctcUsed, totalTax |-> c.totalTax]

\* lines 158-175: the returned record, rounded at the boundary only
resultRecord(l) ==
    [agi |-> Round(l.agi),
     deductionUsed |-> Round(l.deductionUsed),
     itemizedUsed |-> (l.deductionUsed = l.itemized),
     taxableOrdinary |-> Round(l.taxableOrdinary),
     taxableLtcg |-> Round(l.taxableLtcg),
     ordinaryTax |-> Round(l.ordinaryTax),
     ltcgTax |-> Round(l.ltcgTax),
     niitTax |-> Round(l.niitTax),
     childTaxCreditNonrefundableUsed |-> Round(l.ctcUsed),
     totalTax |-> Round(l.totalTax)]

estimateTaxMFJ(ordinaryIncomeK, ltcgK, dividendsK, charitableCashK, saltPaidK) ==
    resultRecord(
        estimateLocals(ordinaryIncomeK, ltcgK, dividendsK, charitableCashK, saltPaidK))

\* the call on a vector of the five arguments
localsOf(a) == estimateLocals(a[1], a[2], a[3], a[4], a[5])

resultOf(a) == estimateTaxMFJ(a[1], a[2], a[3], a[4], a[5])

(***************************************************************************)
(* The estimator's specification: the script's own call (lines 178-185),   *)
(* then further calls that change one argument at a time.                  *)
(***************************************************************************)
\* the largest multiple of GridK an income argument takes
MaxGrid == 4

GridK == N(200)

\* 400.001 K is one currency unit past the credit's phase-out start
OrdinaryKs == {N(-5), N(123), N(400) + 1, POSITIVE_INFINITY}
                \cup {GridK * j : j \in 0..MaxGrid}

LtcgKs == {N(-1), N(0), N(10), N(123), N(700)}

DividendsKs == {N(0), N(12), N(123)}

CharitableKs == {N(-3), N(0), N(12), N(1000)}

\* 31.5 K of SALT alone ties the standard deduction
SaltKs == {NaN, N(0), N(12), N(31) + FP \div 2, N(40)}

ArgKs == <<OrdinaryKs, LtcgKs, DividendsKs, CharitableKs, SaltKs>>

ScriptArgs == <<N(123), N(123), N(12), N(12), N(12)>>

EstIdle ==
    /\ args = ScriptArgs
    /\ frame = localsOf(ScriptArgs)
    /\ r202x = resultOf(ScriptArgs)

BrkIdle == taxable = 0 /\ tax = taxFromBrackets(0, ORD_BRACKETS)

CtcIdle == magi = 0 /\ credit = childTaxCreditNonrefundable(0)

(***************************************************************************)
(* src/unnamed/part_000: the poller's constants and helpers.  Time is      *)
(* counted in days: one unit of the clock is SEC_PER_DAY * 1000 ms.        *)
(***************************************************************************)
COOLDOWN_DAYS == 21

COOLDOWN_MS == COOLDOWN_DAYS

\* JSON null and a missing property are <<>>; a present value v is <<v>>
EMPTY_STATE == [lastId |-> <<>>, lastHitAt |-> <<>>]

\* a missing file makes readFileSync throw; a file holds what saveState wrote
loadState(file) == IF file = <<>> THEN EMPTY_STATE ELSE file[1]

saveState(st) == <<st>>

\* the number a subtraction makes of its operand: null is 0
ToNumber(x) == IF x = <<>> THEN 0 ELSE x[1]

\* mutant: a misspelt property is read (state.lastHit): undefined makes the
\* difference NaN, and NaN < COOLDOWN_MS is false
inCooldown_misspelt(now, st) == FALSE

\* line 59: Date.now() - state.lastHitAt < COOLDOWN_MS
inCooldown(now, st) == now - ToNumber(st.lastHitAt) < COOLDOWN_MS

\* line 73: !title || !objectID || state.lastId === objectID
notNew(st, hit) == hit.title = "" \/ hit.objectID = <<>> \/ st.lastId = hit.objectID

\* any real clock is far more than a cooldown past the epoch
ClockStart == 2 * COOLDOWN_MS

HnIdle ==
    /\ clock = ClockStart /\ hnFile = <<>> /\ pc = "exited"
    /\ state = EMPTY_STATE
    /\ checkedAt = ClockStart /\ requested = FALSE /\ wrote = FALSE /\ exitCode = 0

Init == EstIdle /\ BrkIdle /\ CtcIdle /\ HnIdle

\* a call of estimateTaxMFJ with argument i changed to k
Estimate(i, k) ==
    /\ k # args[i]
    /\ args' = [args EXCEPT ![i] = k]
    /\ frame' = localsOf(args')
    /\ r202x' = resultOf(args')
    /\ UNCHANGED <<brkVars, ctcVars, hnVars>>

Next == \E i \in 1..5 : \E k \in ArgKs[i] : Estimate(i, k)

Spec == Init /\ [][Next]_vars

(***************************************************************************)
(* The estimator's claims                                                  *)
(***************************************************************************)
FiniteNonNeg(a) == \A i \in 1..5 : IsFinite(a[i]) /\ a[i] >= 0

\* the total tax of the call that differs from the last one in argument i
TotalWith(i, k) == resultOf([args EXCEPT ![i] = k]).totalTax

\* raising argument i alone, to any larger amount, never lowers the total tax
MonotoneIn(i) ==
    \A k \in ArgKs[i] :
        (IsFinite(k) /\ k > args[i]) => TotalWith(i, k) >= r202x.totalTax

\* C1 as stated: for non-negative inputs, raising any single one of the five
\* inputs, the other four fixed, never decreases totalTax.
C1_MonotoneEveryInput ==
    FiniteNonNeg(args) => \A i \in 1..5 : MonotoneIn(i)

\* C1 amended: for non-negative inputs, raising ordinaryIncomeK or dividendsK
\* alone never decreases totalTax (raising ltcgK, charitableCashK or saltPaidK
\* can decrease it).
C1_MonotoneOrdinaryDividends ==
    FiniteNonNeg(args) => MonotoneIn(1) /\ MonotoneIn(3)

\* a call whose total tax is positive and strictly below that of a call with
\* more ordinary income and that of a call with more dividends
C1_Witness ==
    /\ FiniteNonNeg(args)
    /\ r202x.totalTax > 0
    /\ \E k \in ArgKs[1] : IsFinite(k) /\ k > args[1] /\ TotalWith(1, k) > r202x.totalTax
    /\ \E k \in ArgKs[3] : IsFinite(k) /\ k > args[3] /\ TotalWith(3, k) > r202x.totalTax

\* C2: the credit is nonrefundable: totalTax >= 0, 0 <= ctcUsed, ctcUsed is at
\* most taxBeforeCredits (ordinaryTax + ltcgTax + niitTax) and at most the
\* phased-out credit, and totalTax = taxBeforeCredits - ctcUsed.
C2_Nonrefundable ==
    /\ frame.taxBeforeCredits = frame.ordinaryTax + frame.ltcgTax + frame.niitTax
    /\ frame.ctcUsed >= 0
    /\ frame.ctcUsed <= frame.taxBeforeCredits
    /\ frame.ctcUsed <= frame.ctc
    /\ frame.totalTax = frame.taxBeforeCredits - frame.ctcUsed
    /\ frame.totalTax >= 0
    /\ r202x.totalTax >= 0
    /\ r202x.childTaxCreditNonrefundableUsed >= 0

\* a call whose credit exceeds its positive tax: part of the credit is unused
C2_Witness ==
    /\ frame.taxBeforeCredits > 0
    /\ frame.ctc > frame.taxBeforeCredits
    /\ frame.ctcUsed = frame.taxBeforeCredits
    /\ r202x.totalTax = 0

\* C3 as stated: the itemized flag is true exactly when the itemized deduction
\* strictly exceeds the standard deduction; on a tie it is false.
C3_ItemizedFlagStrict ==
    r202x.itemizedUsed <=> (frame.itemized > STD_DED)

\* C4: the three gains bands are non-negative and sum to taxableLtcg, the 0%
\* band is empty once taxableOrdinary >= CG_ZERO, and taxableOrdinary + z + f
\* never exceeds max(taxableOrdinary, CG_FIFTEEN).
C4_StackingExhaustive ==
    /\ frame.z >= 0 /\ frame.f >= 0 /\ frame.t >= 0
    /\ frame.z + frame.f + frame.t = frame.taxableLtcg
    /\ (frame.taxableOrdinary >= CG_ZERO => frame.z = 0)
    /\ frame.taxableOrdinary + frame.z + frame.f
           <= Max(frame.taxableOrdinary, CG_FIFTEEN)

\* a call whose gains fill all three bands
C4_Witness == frame.z > 0 /\ frame.f > 0 /\ frame.t > 0

\* C5: estimateTaxMFJ(123, 123, 12, 12, 12) returns the record of scenario A.
C5_ScenarioA ==
    args = ScriptArgs =>
        r202x = [agi |-> N(258000),
                 deductionUsed |-> N(31500),
                 itemizedUsed |-> FALSE,
                 taxableOrdinary |-> N(103500),
                 taxableLtcg |-> N(123000),
                 ordinaryTax |-> N(12598),
                 ltcgTax |-> N(18450),
                 niitTax |-> N(304),
                 childTaxCreditNonrefundableUsed |-> N(6600),
                 totalTax |-> N(24752)]

\* the script's call has been made and has returned its total
C5_Witness == args = ScriptArgs /\ r202x.totalTax = N(24752)

ResultFields ==
    {"agi", "deductionUsed", "itemizedUsed", "taxableOrdinary", "taxableLtcg",
     "ordinaryTax", "ltcgTax", "niitTax", "childTaxCreditNonrefundableUsed",
     "totalTax"}

\* C8: every call returns a result record; replacing a negative (or non-finite)
\* argument by 0 gives the same record; with no positive argument the record
\* is agi = 0, deductionUsed = STD_DED, every tax 0 and totalTax = 0.
C8_InputsClamped ==
    /\ DOMAIN r202x = ResultFields
    /\ \A i \in 1..5 :
           (~IsFinite(args[i]) \/ args[i] < 0)
               => resultOf([args EXCEPT ![i] = 0]) = r202x
    /\ (\A i \in 1..5 : ~IsFinite(args[i]) \/ args[i] <= 0)
           => /\ r202x.agi = 0
              /\ r202x.deductionUsed = STD_DED
              /\ r202x.ordinaryTax = 0
              /\ r202x.ltcgTax = 0
              /\ r202x.niitTax = 0
              /\ r202x.childTaxCreditNonrefundableUsed = 0
              /\ r202x.totalTax = 0

\* a call with a negative income beside positive ones
C8_Witness ==
    /\ IsFinite(args[1]) /\ args[1] < 0
    /\ IsFinite(args[4]) /\ args[4] < 0
    /\ args[2] > 0
    /\ r202x.agi > 0

\* C9: the deduction is taken off ordinary income first, then off the gains.
C9_DeductionOrdinaryFirst ==
    /\ frame.ordinaryPart = frame.ordinaryIncome + frame.dividends
    /\ frame.agi = frame.ordinaryPart + frame.ltcg
    /\ frame.taxableOrdinary = Max(0, frame.ordinaryPart - frame.deductionUsed)
    /\ frame.taxableOrdinary + frame.taxableLtcg
           = Max(0, frame.agi - frame.deductionUsed)
    /\ frame.taxableLtcg >= 0
    /\ frame.taxableLtcg <= frame.ltcg
    /\ (frame.taxableLtcg < frame.ltcg
           => frame.deductionUsed > frame.ordinaryPart)

\* a call whose deduction uses up the ordinary income and part of the gains
C9_Witness ==
    /\ frame.ordinaryPart > 0
    /\ frame.taxableOrdinary = 0
    /\ frame.taxableLtcg > 0
    /\ frame.taxableLtcg < frame.ltcg

(***************************************************************************)
(* taxFromBrackets on its own: calls on the whole amounts within Window    *)
(* units of 0 and of every finite bracket bound.                           *)
(***************************************************************************)
Window == 8

BracketPoints ==
    {0} \cup {ORD_BRACKETS[i].upTo : i \in 1..(Len(ORD_BRACKETS) - 1)}

InWindow(x, points) == \E p \in points : x >= p - N(Window) /\ x <= p + N(Window)

InitBrackets ==
    /\ taxable \in {p - N(Window) : p \in BracketPoints}
    /\ tax = taxFromBrackets(taxable, ORD_BRACKETS)
    /\ EstIdle /\ CtcIdle /\ HnIdle

\* a call of taxFromBrackets on one unit more
BracketCall ==
    /\ InWindow(taxable + N(1), BracketPoints)
    /\ taxable' = taxable + N(1)
    /\ tax' = taxFromBrackets(taxable', ORD_BRACKETS)
    /\ UNCHANGED <<estVars, ctcVars, hnVars>>

NextBrackets == BracketCall

SpecBrackets == InitBrackets /\ [][NextBrackets]_vars

\* the first bracket whose upTo is >= x
BracketOf(x) ==
    CHOOSE i \in 1..Len(ORD_BRACKETS) :
        /\ x <= ORD_BRACKETS[i].upTo
        /\ \A j \in 1..(i - 1) : x > ORD_BRACKETS[j].upTo

\* C6: the bracket tax is 0 for t <= 0, and for a whole amount t >= 0 one unit
\* more costs exactly the rate of the first bracket whose upTo is >= t + 1.
C6_MarginalRate ==
    /\ taxable <= 0 => tax = 0
    /\ taxable >= 0 =>
           taxFromBrackets(taxable + N(1), ORD_BRACKETS) - tax
               = ORD_BRACKETS[BracketOf(taxable + N(1))].rate

\* the call exactly on the first bound: the next unit is taxed at the second rate
C6_Witness ==
    /\ taxable = ORD_BRACKETS[1].upTo
    /\ tax = N(2385)
    /\ BracketOf(taxable + N(1)) = 2

(***************************************************************************)
(* childTaxCreditNonrefundable on its own: calls on the whole amounts      *)
(* within Window units of some steps of the phase-out.                     *)
(***************************************************************************)
CtcPoints ==
    {N(Window)} \cup
    {CTC_PHASEOUT_START + j * CTC_PHASEOUT_STEP : j \in {0, 1, 66, 131, 132, 133}}

InitCtc ==
    /\ magi \in {p - N(Window) : p \in CtcPoints}
    /\ credit = childTaxCreditNonrefundable(magi)
    /\ EstIdle /\ BrkIdle /\ HnIdle

\* a call of childTaxCreditNonrefundable on one unit more
CtcCall ==
    /\ InWindow(magi + N(1), CtcPoints)
    /\ magi' = magi + N(1)
    /\ credit' = childTaxCreditNonrefundable(magi')
    /\ UNCHANGED <<estVars, brkVars, hnVars>>

NextCtc == CtcCall

SpecCtc == InitCtc /\ [][NextCtc]_vars

\* the least number of whole steps that cover the excess of m over the start
StepsOver(m) ==
    CHOOSE k \in 0..((m \div CTC_PHASEOUT_STEP) + 1) :
        /\ m - CTC_PHASEOUT_START <= k * CTC_PHASEOUT_STEP
        /\ k > 0 => m - CTC_PHASEOUT_START > (k - 1) * CTC_PHASEOUT_STEP

\* C7: the credit is 6600 up to CTC_PHASEOUT_START, one unit past the start
\* costs 50 at once, the reduction is 50 per started step of 1000, and the
\* credit is never negative.
C7_CreditCliff ==
    /\ magi <= CTC_PHASEOUT_START => credit = N(6600)
    /\ magi = CTC_PHASEOUT_START =>
           childTaxCreditNonrefundable(magi + N(1)) = credit - N(50)
    /\ credit = Max(0, N(6600) - StepsOver(magi) * N(50))
    /\ credit >= 0

\* the call one unit past the start of the phase-out
C7_Witness == magi = CTC_PHASEOUT_START + N(1) /\ credit = N(6550)

(***************************************************************************)
(* The poller: runs of main() one after another on one state file.         *)
(***************************************************************************)
\* the days the clock runs past ClockStart
MaxDays == 25

\* the posts Algolia may return, by number
MaxPost == 2

Hits ==
    [title : {"", "Ask HN: What are you working on?"},
     objectID : {<<>>} \cup {<<n>> : n \in 1..MaxPost}]

\* the clock advances by a day, at any point of a run or between runs
Tick ==
    /\ clock < ClockStart + MaxDays
    /\ clock' = clock + 1
    /\ UNCHANGED <<estVars, brkVars, ctcVars,
                   hnFile, pc, state, checkedAt, requested, wrote, exitCode>>

\* lines 56-64: a new process runs main() up to `await request()`
MainStart ==
    /\ pc = "exited"
    /\ state' = loadState(hnFile)
    /\ checkedAt' = clock
    /\ wrote' = FALSE
    /\ exitCode' = 0
    /\ IF inCooldown(clock, state')
       THEN pc' = "exited" /\ requested' = FALSE
       ELSE pc' = "awaiting" /\ requested' = TRUE
    /\ UNCHANGED <<estVars, brkVars, ctcVars, clock, hnFile>>

\* lines 45-47, 91-94: the request fails, main rejects, the catch sets 1
MainThrows ==
    /\ pc = "awaiting"
    /\ pc' = "exited"
    /\ exitCode' = 1
    /\ UNCHANGED <<estVars, brkVars, ctcVars,
                   clock, hnFile, state, checkedAt, requested, wrote>>

\* lines 66-69: no data, or no hits
MainNoHits ==
    /\ pc = "awaiting"
    /\ pc' = "exited"
    /\ UNCHANGED <<estVars, brkVars, ctcVars,
                   clock, hnFile, state, checkedAt, requested, wrote, exitCode>>

\* lines 71-88: the first hit is looked at, and reported when it is new
MainHit(hit) ==
    /\ pc = "awaiting"
    /\ pc' = "exited"
    /\ IF notNew(state, hit)
       THEN UNCHANGED <<hnFile, wrote, exitCode>>
       ELSE /\ hnFile' = saveState([lastId |-> hit.objectID, lastHitAt |-> <<clock>>])
            /\ wrote' = TRUE
            /\ exitCode' = 2
    /\ UNCHANGED <<estVars, brkVars, ctcVars, clock, state, checkedAt, requested>>

InitHN == EstIdle /\ BrkIdle /\ CtcIdle /\ HnIdle

NextHN ==
    \/ Tick
    \/ MainStart
    \/ MainThrows
    \/ MainNoHits
    \/ \E hit \in Hits : MainHit(hit)

SpecHN == InitHN /\ [][NextHN]_vars

\* the run read a state whose last report is less than a cooldown old
StartedInCooldown ==
    state.lastHitAt # <<>> /\ checkedAt - state.lastHitAt[1] < COOLDOWN_MS

\* C10: a run started less than COOLDOWN_MS after the last report's lastHitAt
\* returns without the network request, without rewriting the state file and
\* without exit code 2; and no run reports the post whose objectID is the
\* stored lastId.
C10_Cooldown ==
    /\ pc = "awaiting" => state = loadState(hnFile)
    /\ StartedInCooldown =>
           /\ pc = "exited"
           /\ ~requested /\ ~wrote /\ exitCode # 2
           /\ hnFile = saveState(state)
    /\ wrote =>
           /\ exitCode = 2
           /\ hnFile[1].lastId # state.lastId
           /\ hnFile[1].lastHitAt[1] >= checkedAt

\* a run that came back at once, a day short of the cooldown's end
C10_Witness ==
    /\ StartedInCooldown
    /\ checkedAt - state.lastHitAt[1] = COOLDOWN_MS - 1
    /\ pc = "exited" /\ ~requested

====
